---------------------------- MODULE Spec2Model ----------------------------
(***************************************************************************)
(* Model of the SimpleCar task (src/code/simple_car.cc, simple_car.h):     *)
(* the telemetry update, the goal transition, the primitive emitters, the  *)
(* four gauge composers and the ModifyScene render pass.                   *)
(*                                                                         *)
(* Number representation.                                                  *)
(*   - The fuel reserve is an IEEE-754 double that is decremented by the   *)
(*     double 0.001 on every update.  Every value it takes is an integer   *)
(*     multiple of 2^-62, so it is held exactly, as four base-2^20 limbs   *)
(*     <<a3, a2, a1, a0>> of that integer, and the subtraction rounds to   *)
(*     53 significant bits, ties to even, as the hardware does.            *)
(*   - The two static animation timers are IEEE-754 floats; they are held  *)
(*     exactly as integers in units of 2^-28 and additions round to 24     *)
(*     significant bits, ties to even.                                     *)
(*   - Velocities are in units of 0.01 m/s, positions in units of 1/16     *)
(*     (dyadic, so the distance test of the code is decided exactly),      *)
(*     speed_kmh in 0.001 km/h, rpm in 0.001 rpm, temperature in 0.0001 C. *)
(*     The velocities are those whose speed is a whole number of 0.01 m/s. *)
(*   - The temperature double differs from that decimal value by its       *)
(*     rounding errors, which decide the printed tenth where the decimal   *)
(*     value is half way between two tenths.  There the double is computed *)
(*     exactly and temperature_err records the side it is on.              *)
(*   - Geometry written into the scene is in units of 0.0001, colours in   *)
(*     units of 0.0001, angles in units of 0.0001 degree.  Points that the *)
(*     code obtains with cos/sin are kept in polar form.                   *)
(***************************************************************************)
EXTENDS Integers, Sequences, FiniteSets, TLC

VARIABLES
  dashboard,     \* instance -> DashboardData (simple_car.h:55-65)
  qpos,          \* data->qpos[0..1], car position, units of 1/16
  qvel,          \* data->qvel[0..1], car velocity, units of 0.01 m/s
  xpos,          \* data->xpos: body id -> world position; x,y in 1/16,
                 \* z in 0.0001
  mocap_pos,     \* data->mocap_pos[0..2], goal; x,y in 1/16, z in 0.01
  car_body_id,   \* mj_name2id(model, mjOBJ_BODY, "car"): -1 when absent
  scene,         \* the host's mjvScene (or NullScene)
  blink_timer,   \* static float blink_timer (simple_car.cc:433)
  heat_timer,    \* static float heat_timer (simple_car.cc:516)
  last,          \* history: the operation that produced this state
  updates,       \* history: instance -> number of telemetry updates so far
  wraps,         \* history: instance -> number of fuel wraparounds so far
  steps,         \* number of TransitionLocked steps taken in this run
  passes,        \* number of ModifyScene passes taken in this run
  solo           \* history: instance -> timers as if it rendered alone

vars == <<dashboard, qpos, qvel, xpos, mocap_pos, car_body_id, scene, blink_timer,
          heat_timer, last, updates, wraps, steps, passes, solo>>

-----------------------------------------------------------------------------
(* Bounds of the model.                                                    *)

\* TransitionLocked steps explored from each initial state of Spec.
MaxSteps == 2
\* ModifyScene passes explored from each initial state of Spec.
MaxPasses == 2
\* Telemetry updates followed by SpecFuel (one full fuel cycle and beyond).
MaxUpdates == 100003
\* Render passes in a run of two instances.
MaxFrames == 7

-----------------------------------------------------------------------------
(* Exact arithmetic on the fuel reserve (IEEE-754 double).                 *)

Limb == 2^20

RECURSIVE BitLen(_)
\* Number of significant bits of n >= 0.
BitLen(n) == IF n = 0 THEN 0 ELSE 1 + BitLen(n \div 2)

\* A double: its sign and the limbs of its magnitude.
DPos(m) == [neg |-> FALSE, mag |-> m]

\* 100.0 in units of 2^-62.
Fuel100 == DPos(<<400, 0, 0, 0>>)
\* The double nearest to 0.001 is 4611686018427388 * 2^-62.
Fuel001 == DPos(<<0, 4194, 318767, 109052>>)

\* a < b on limb vectors.
FLess(a, b) ==
  \E i \in 1..4 : a[i] < b[i] /\ \A j \in 1..(i - 1) : a[j] = b[j]

\* Carries the limbs of v (each possibly out of 0..Limb-1) into range;
\* the top limb absorbs what is left.
FNormalize(v) ==
  LET c0 == v[4] \div Limb
      a0 == v[4] % Limb
      s1 == v[3] + c0
      c1 == s1 \div Limb
      a1 == s1 % Limb
      s2 == v[2] + c1
      c2 == s2 \div Limb
      a2 == s2 % Limb
  IN  <<v[1] + c2, a2, a1, a0>>

\* a - b for a >= b, exact.
FMinus(a, b) == FNormalize(<<a[1] - b[1], a[2] - b[2], a[3] - b[3], a[4] - b[4]>>)

\* Bit length of the integer a limb vector holds.
FBitLen(a) ==
  IF a[1] > 0 THEN 60 + BitLen(a[1])
  ELSE IF a[2] > 0 THEN 40 + BitLen(a[2])
  ELSE IF a[3] > 0 THEN 20 + BitLen(a[3])
  ELSE BitLen(a[4])

\* Round to 53 significant bits, ties to even (the rounded bits all lie in
\* the lowest limb for values up to 100.0).
FRound(a) ==
  LET r == FBitLen(a) - 53
  IN  IF r <= 0 THEN a
      ELSE LET p    == 2^r
               q    == a[4] \div p
               rem  == a[4] % p
               half == p \div 2
               up   == rem > half \/ (rem = half /\ q % 2 = 1)
           IN  FNormalize(<<a[1], a[2], a[3], (q + (IF up THEN 1 ELSE 0)) * p>>)

\* a + b, exact.
FPlus(a, b) == FNormalize(<<a[1] + b[1], a[2] + b[2], a[3] + b[3], a[4] + b[4]>>)

\* The double a - b, for a double a and a positive double b.
DoubleSub(a, b) ==
  IF a.neg THEN [neg |-> TRUE, mag |-> FRound(FPlus(a.mag, b.mag))]
  ELSE IF FLess(a.mag, b.mag)
  THEN [neg |-> TRUE, mag |-> FRound(FMinus(b.mag, a.mag))]
  ELSE [neg |-> FALSE, mag |-> FRound(FMinus(a.mag, b.mag))]

\* a < 0.0
IsNegative(a) == a.neg /\ a.mag /= <<0, 0, 0, 0>>

\* The limbs of |f| * k, for a small integer k; the top limb counts quarters.
FTimes(f, k) == FNormalize(<<f.mag[1] * k, f.mag[2] * k, f.mag[3] * k, f.mag[4] * k>>)

\* floor(|f| * k) for a small integer k.
FScaleFloor(f, k) == FTimes(f, k)[1] \div 4

\* |f| * k rounded to the nearest integer, ties to even, as snprintf "%.1f"
\* rounds the exact value of the double.
FScaleRound(f, k) ==
  LET t == FTimes(f, k)
      q == t[1] \div 4
      tie == t[1] % 4 = 2 /\ <<t[2], t[3], t[4]>> = <<0, 0, 0>>
  IN  IF t[1] % 4 < 2 THEN q
      ELSE IF tie THEN q + (q % 2)
      ELSE q + 1

-----------------------------------------------------------------------------
(* Exact arithmetic on the animation timers (IEEE-754 float), 2^-28 units. *)

TimerOne == 2^28
\* 0.1f = 0x1.99999ap-4 and 0.05f = 0x1.99999ap-5.
BlinkInc == 26843546
HeatInc == 13421773

\* Round n >= 0 to 24 significant bits, ties to even.
Float32Round(n) ==
  LET r == BitLen(n) - 24
  IN  IF r <= 0 THEN n
      ELSE LET p    == 2^r
               q    == n \div p
               rem  == n % p
               half == p \div 2
               up   == rem > half \/ (rem = half /\ q % 2 = 1)
           IN  (q + (IF up THEN 1 ELSE 0)) * p

Float32Add(a, b) == Float32Round(a + b)

-----------------------------------------------------------------------------
(* Exact arithmetic on the velocity-derived doubles.                       *)
(*                                                                         *)
(* A natural number of any size is the sequence of its digits in base      *)
(* 2^12, lowest first, without leading zeros.  A non-negative double is    *)
(* [m, e], standing for m * 2^e with m below 2^53 or equal to it.  Every   *)
(* operation computes the exact result and rounds it to 53 bits, to        *)
(* nearest, ties to even, as the SSE2 instructions of the build do (no     *)
(* fused multiply-add).                                                    *)

Digit == 4096

RECURSIVE Carry(_, _, _)
\* The digits of the number whose columns c[i..] and carry k are given.
Carry(c, i, k) ==
  IF i > Len(c)
  THEN IF k = 0 THEN <<>> ELSE <<k % Digit>> \o Carry(c, i, k \div Digit)
  ELSE <<(c[i] + k) % Digit>> \o Carry(c, i + 1, (c[i] + k) \div Digit)

RECURSIVE BTrim(_)
BTrim(a) ==
  IF Len(a) > 0 /\ a[Len(a)] = 0 THEN BTrim(SubSeq(a, 1, Len(a) - 1)) ELSE a

BCol(a, i) == IF i >= 1 /\ i <= Len(a) THEN a[i] ELSE 0

BFromInt(n) == BTrim(Carry(<<n>>, 1, 0))

BAdd(a, b) ==
  IF Len(a) = 0 THEN b
  ELSE IF Len(b) = 0 THEN a
  ELSE IF Len(a) > Len(b)
  THEN BTrim(Carry([i \in 1..Len(a) |-> a[i] + BCol(b, i)], 1, 0))
  ELSE BTrim(Carry([i \in 1..Len(b) |-> BCol(a, i) + b[i]], 1, 0))

\* a - b for a >= b.
BSub(a, b) ==
  IF Len(b) = 0 \/ Len(a) = 0 THEN a
  ELSE BTrim(Carry([i \in 1..Len(a) |-> a[i] - BCol(b, i)], 1, 0))

RECURSIVE BColumn(_, _, _, _)
\* Column k of the product a * b: the sum of a[j] * b[k + 1 - j], j >= i.
BColumn(a, b, k, i) ==
  IF i > Len(a) THEN 0
  ELSE a[i] * BCol(b, k + 1 - i) + BColumn(a, b, k, i + 1)

BMul(a, b) ==
  IF Len(a) = 0 \/ Len(b) = 0 THEN <<>>
  ELSE BTrim(Carry([k \in 1..(Len(a) + Len(b) - 1) |-> BColumn(a, b, k, 1)],
                   1, 0))

RECURSIVE BCmpFrom(_, _, _)
BCmpFrom(a, b, i) ==
  IF i = 0 THEN 0
  ELSE IF a[i] < b[i] THEN 0 - 1
  ELSE IF a[i] > b[i] THEN 1
  ELSE BCmpFrom(a, b, i - 1)

\* -1, 0 or 1 as a is below, equal to or above b.
BCmp(a, b) ==
  IF Len(a) < Len(b) THEN 0 - 1
  ELSE IF Len(a) > Len(b) THEN 1
  ELSE BCmpFrom(a, b, Len(a))

BBitLen(a) ==
  IF Len(a) = 0 THEN 0 ELSE (Len(a) - 1) * 12 + BitLen(a[Len(a)])

\* 2^n.
BPow2(n) ==
  [i \in 1..(n \div 12 + 1) |-> IF i = n \div 12 + 1 THEN 2^(n % 12) ELSE 0]

BShl(a, n) == BMul(a, BPow2(n))

RECURSIVE BDivFrom(_, _, _, _)
\* Quotient and remainder of (r, a[i], ..., a[1]) by d, for d below 2^13.
BDivFrom(a, d, i, r) ==
  IF i = 0 THEN [q |-> <<>>, r |-> r]
  ELSE LET cur  == r * Digit + a[i]
           rest == BDivFrom(a, d, i - 1, cur % d)
       IN  [q |-> Append(rest.q, cur \div d), r |-> rest.r]

\* a \div 2^n.
BShr(a, n) ==
  IF Len(a) <= n \div 12 THEN <<>>
  ELSE BTrim(BDivFrom(SubSeq(a, n \div 12 + 1, Len(a)), 2^(n % 12),
                      Len(a) - n \div 12, 0).q)

\* Whether a quotient q whose remainder compares as c with one half rounds
\* up: an odd q from the half on, an even q above it.
RoundsUp(q, c) == IF q[1] % 2 = 1 THEN c >= 0 ELSE c > 0

\* m rounded to its quotient q by 2^n.
DRoundTo(m, q, n, e) ==
  [m |-> IF RoundsUp(q, BCmp(BSub(m, BShl(q, n)), BPow2(n - 1)))
         THEN BAdd(q, <<1>>) ELSE q,
   e |-> e + n]

\* m * 2^e rounded to a double.
DRound(m, e) ==
  IF BBitLen(m) <= 53 THEN [m |-> m, e |-> e]
  ELSE DRoundTo(m, BShr(m, BBitLen(m) - 53), BBitLen(m) - 53, e)

DInt(n) == [m |-> BFromInt(n), e |-> 0]

\* a * k, exactly.
DTimes(a, k) == [m |-> BMul(a.m, BFromInt(k)), e |-> a.e]

DMul(a, b) ==
  IF Len(a.m) = 0 \/ Len(b.m) = 0 THEN DInt(0)
  ELSE DRound(BMul(a.m, b.m), a.e + b.e)

\* lo + hi for lo.e <= hi.e.
DSum(lo, hi) == DRound(BAdd(lo.m, BShl(hi.m, hi.e - lo.e)), lo.e)

DAdd(a, b) ==
  IF Len(a.m) = 0 THEN b
  ELSE IF Len(b.m) = 0 THEN a
  ELSE IF a.e < b.e THEN DSum(a, b)
  ELSE DSum(b, a)

\* lo against hi for lo.e <= hi.e.
DCmpTo(lo, hi) == BCmp(lo.m, BShl(hi.m, hi.e - lo.e))

\* -1, 0 or 1 as a is below, equal to or above b.
DCmp(a, b) == IF a.e < b.e THEN DCmpTo(a, b) ELSE 0 - DCmpTo(b, a)

\* if (a > b) a = b;
DMin(a, b) == IF DCmp(a, b) > 0 THEN b ELSE a

\* if (a < b) a = b;
DMax(a, b) == IF DCmp(a, b) < 0 THEN b ELSE a

\* 2 * q, and one more when anything is left over.
BTwice(q, left) == IF left THEN BAdd(BAdd(q, q), <<1>>) ELSE BAdd(q, q)

BDiv(a, d) == BDivFrom(a, d, Len(a), 0)

\* The quotient dv of m * 2^k by d, as the double nearest to m * 2^e / d.
DQuotient(dv, k, e) ==
  IF dv.r = 0 THEN DRound(BTrim(dv.q), e - k)
  ELSE DRound(BTwice(BTrim(dv.q), TRUE), e - k - 1)

\* a / d for an integer d below 2^13: the quotient of a.m, made 69 bits
\* long, by d has 56 bits or more.
DDiv(a, d) ==
  IF Len(a.m) = 0 THEN a
  ELSE DQuotient(BDiv(BShl(a.m, 69 - BBitLen(a.m)), d),
                 69 - BBitLen(a.m), a.e)

\* r with digit j at the place p.
BSqrtWith(r, p, j) == BAdd(r, BMul(<<j>>, p))

\* Whether c * c <= n.
BSquareFits(n, c) == BCmp(BMul(c, c), n) <= 0

\* r with, at the place p, the largest hexadecimal digit whose square fits.
BSqrtDigit(n, r, p) ==
  BSqrtWith(r, p,
            Cardinality({j \in 1..15 : BSquareFits(n, BSqrtWith(r, p, j))}))

RECURSIVE BSqrtFrom(_, _, _)
\* The largest r with r * r <= n that agrees with r above hexadecimal
\* digit i: r itself when no digit is left or its square is n already.
BSqrtFrom(n, r, i) ==
  IF i < 0 \/ BCmp(BMul(r, r), n) = 0 THEN r
  ELSE BSqrtFrom(n, BSqrtDigit(n, r, BPow2(4 * i)), i - 1)

\* The double nearest to the root of n * 2^(2 * e + 2), r being the whole
\* part of the root of n.
DRootOf(n, r, e) == DRound(BTwice(r, BCmp(BMul(r, r), n) # 0), e)

\* The shift that makes a.m a 109- or 110-bit number with an even exponent.
SqrtShift(a) ==
  IF (a.e - (110 - BBitLen(a.m))) % 2 = 0 THEN 110 - BBitLen(a.m)
  ELSE 109 - BBitLen(a.m)

\* std::sqrt.
DSqrt(a) ==
  IF Len(a.m) = 0 THEN a
  ELSE DRootOf(BShl(a.m, SqrtShift(a)),
               BSqrtFrom(BShl(a.m, SqrtShift(a)), <<>>, 13),
               (a.e - SqrtShift(a)) \div 2 - 1)

-----------------------------------------------------------------------------
(* Telemetry.                                                              *)

RECURSIVE SqrtIter(_, _, _)
\* Largest r in lo..hi with r*r <= n.
SqrtIter(n, lo, hi) ==
  IF lo >= hi THEN lo
  ELSE LET mid == (lo + hi + 1) \div 2
       IN  IF mid * mid <= n THEN SqrtIter(n, mid, hi)
           ELSE SqrtIter(n, lo, mid - 1)

\* std::sqrt on the velocity grid (exact when n is a perfect square, as it
\* is for every velocity the model draws).
Sqrt(n) == SqrtIter(n, 0, 46340)

\* DashboardData's default member initialisers.
FreshDashboard ==
  [speed_kmh |-> 0, rpm |-> 0, fuel |-> Fuel100, temperature |-> 600000,
   temperature_err |-> 0, simulated_fuel |-> Fuel100]

\* Whether one more update makes the reserve wrap.
FuelWraps(d) == IsNegative(DoubleSub(d.simulated_fuel, Fuel001))

\* RpmOf without the ceiling at 8000.
RpmNoCeiling(speed_kmh) ==
  LET rpm0 == speed_kmh * 40 + 800000
  IN  IF rpm0 < 800000 THEN 800000 ELSE rpm0

\* rpm = 800 + speed_kmh * 40, brought down to 8000 and up to 800.
RpmOf(speed_kmh) ==
  LET rpm0 == speed_kmh * 40 + 800000
      rpm1 == IF rpm0 > 8000000 THEN 8000000 ELSE rpm0
  IN  IF rpm1 < 800000 THEN 800000 ELSE rpm1

\* ReserveAfter holding the reserve at zero instead of refilling it.
ReserveHeldAtZero(f) ==
  LET sub == DoubleSub(f, Fuel001)
  IN  IF IsNegative(sub) THEN DPos(<<0, 0, 0, 0>>) ELSE sub

\* simulated_fuel -= 0.001, refilled to 100.0 once negative.
ReserveAfter(f) ==
  LET sub == DoubleSub(f, Fuel001)
  IN  IF IsNegative(sub) THEN Fuel100 ELSE sub

\* temperature = 60 + (rpm / 8000) * 60, brought down to 120.
TempOf(rpm) ==
  LET temp0 == 600000 + (rpm * 3) \div 40
  IN  IF temp0 > 1200000 THEN 1200000 ELSE temp0

\* data->qvel[k] for a velocity of n hundredths: the double nearest to it.
DVelocity(n) == DDiv(DInt(IF n < 0 THEN 0 - n ELSE n), 100)

DSquare(a) == DMul(a, a)

\* speed = std::sqrt(vx * vx + vy * vy), in double.
DoubleSpeed(vel) ==
  DSqrt(DAdd(DSquare(DVelocity(vel[1])), DSquare(DVelocity(vel[2]))))

\* dashboard_.speed_kmh = speed * 3.6, in double.
DoubleSpeedKmh(vel) == DMul(DoubleSpeed(vel), DDiv(DInt(36), 10))

\* dashboard_.rpm and its two clamps, in double.
DoubleRpm(vel) ==
  DMax(DMin(DAdd(DMul(DoubleSpeedKmh(vel), DInt(40)), DInt(800)),
            DInt(8000)),
       DInt(800))

\* dashboard_.temperature and its clamp, in double.
DoubleTemperature(vel) ==
  DMin(DAdd(DInt(60), DMul(DDiv(DoubleRpm(vel), 8000), DInt(60))),
       DInt(120))

\* Where the temperature is half way between two tenths of a degree, the
\* side of it the double is on: -1 below, 0 on it, 1 above.  Elsewhere 0:
\* the double is within 10^-12 of the temperature, which is a multiple of
\* 0.0004 and so at least 0.0002 from the nearest half.
TemperatureErr(vel, temperature) ==
  IF temperature % 1000 # 500 THEN 0
  ELSE DCmp(DTimes(DoubleTemperature(vel), 10000), DInt(temperature))

UpdateDashboardData(d, vel) ==
  LET speed     == Sqrt(vel[1] * vel[1] + vel[2] * vel[2])
      speed_kmh == speed * 36
      rpm       == RpmOf(speed_kmh)
      simfuel   == ReserveAfter(d.simulated_fuel)
  IN  [speed_kmh |-> speed_kmh, rpm |-> rpm, fuel |-> simfuel,
       temperature |-> TempOf(rpm),
       temperature_err |-> TemperatureErr(vel, TempOf(rpm)),
       simulated_fuel |-> simfuel]


-----------------------------------------------------------------------------
(* The scene buffer and the four primitive emitters.                       *)
(*                                                                         *)
(* A geom is the set of mjvGeom fields the emitters write:                 *)
(*   type, category, size, rgba, label, mat, and its position.  A position *)
(*   is the point (x + r cos a, y + r sin a) at height z.  A line is the   *)
(*   thin box over the segment from `from` to `to`: its centre, half       *)
(*   length and rotation (simple_car.cc:147-176) are functions of the two  *)
(*   end points and are kept as those end points; every other primitive    *)
(*   has from = to.  phase >= 0 marks the one alpha that is a sine of a    *)
(*   timer: alpha = 0.3 + 0.3 sin(5 * phase).  Fields an emitter does not  *)
(*   write keep whatever the slot held: they read "unset".                 *)

Pt(x, y) == [x |-> x, y |-> y, r |-> 0, a |-> 0]

Polar(x, y, r, a) == [x |-> x, y |-> y, r |-> r, a |-> a]

\* Fixed-point product of two quantities in units of 0.0001.
Mul(a, b) == (a * b) \div 10000

NoLabel == <<"unset", 0, 0>>

NoPhase == 0 - 1

NullScene == [null |-> TRUE, maxgeom |-> 0, geoms |-> <<>>]

\* scene->geoms + scene->ngeom written, then scene->ngeom++.
Put(s, g) == [s EXCEPT !.geoms = Append(s.geoms, g)]

RectGeom(x, y, width, height, r, g, b, a) ==
  [type |-> "BOX", from |-> Pt(x, y), to |-> Pt(x, y), z |-> 0,
   size |-> <<width, height, 10>>, rgba |-> <<r, g, b, a>>,
   phase |-> NoPhase, mat |-> "identity", label |-> NoLabel,
   category |-> "DECOR"]

Draw2DRectangle(s, g) ==
  IF Len(s.geoms) >= s.maxgeom THEN s ELSE Put(s, g)

LineGeom(p1, p2, width, r, g, b, a) ==
  [type |-> "BOX", from |-> p1, to |-> p2, z |-> 0,
   size |-> <<0, width \div 2, 10>>, rgba |-> <<r, g, b, a>>,
   phase |-> NoPhase, mat |-> "rotation", label |-> NoLabel,
   category |-> "DECOR"]

\* Draw2DLine with the guard ngeom > maxgeom.
Draw2DLineOffByOne(s, g) == IF Len(s.geoms) > s.maxgeom THEN s ELSE Put(s, g)

Draw2DLine(s, g) ==
  IF Len(s.geoms) >= s.maxgeom THEN s ELSE Put(s, g)

CircleGeom(x, y, radius, r, g, b, a) ==
  [type |-> "ELLIPSOID", from |-> Pt(x, y), to |-> Pt(x, y), z |-> 0,
   size |-> <<radius, radius, 10>>, rgba |-> <<r, g, b, a>>,
   phase |-> NoPhase, mat |-> "identity", label |-> NoLabel,
   category |-> "DECOR"]

\* Draw2DCircle that writes the slot and forgets scene->ngeom++.
Draw2DCircleUncounted(s, g) == s

Draw2DCircle(s, g) ==
  IF Len(s.geoms) >= s.maxgeom THEN s ELSE Put(s, g)

LabelGeom(p, z, text, size, r, g, b) ==
  [type |-> "LABEL", from |-> p, to |-> p, z |-> z,
   size |-> <<size, size, size>>, rgba |-> <<r, g, b, 10000>>,
   phase |-> NoPhase, mat |-> "unset", label |-> text,
   category |-> "DECOR"]

\* AddLabel without its capacity test.
AddLabelUnguarded(s, g) == Put(s, g)

AddLabel(s, g) ==
  IF Len(s.geoms) < s.maxgeom THEN Put(s, g) ELSE s

\* The goal marker ModifyScene writes in line (simple_car.cc:607-618).
GoalMarkerGeom(goal) ==
  [type |-> "SPHERE", from |-> Pt(goal[1] * 625, goal[2] * 625),
   to |-> Pt(goal[1] * 625, goal[2] * 625), z |-> 2000,
   size |-> <<1500, 1500, 1500>>, rgba |-> <<10000, 0, 0, 8000>>,
   phase |-> NoPhase, mat |-> "unset", label |-> NoLabel,
   category |-> "DECOR"]

AppendGoalMarker(s, g) ==
  IF Len(s.geoms) < s.maxgeom THEN Put(s, g) ELSE s

\* One append call: the emitter called and the geom it was asked to write.
Rect(x, y, w, h, r, g, b, a) ==
  [fn |-> "Draw2DRectangle", geom |-> RectGeom(x, y, w, h, r, g, b, a)]

Line(p1, p2, w, r, g, b, a) ==
  [fn |-> "Draw2DLine", geom |-> LineGeom(p1, p2, w, r, g, b, a)]

Circle(x, y, rad, r, g, b, a) ==
  [fn |-> "Draw2DCircle", geom |-> CircleGeom(x, y, rad, r, g, b, a)]

Label(p, z, text, size, r, g, b) ==
  [fn |-> "AddLabel", geom |-> LabelGeom(p, z, text, size, r, g, b)]

Marker(goal) == [fn |-> "GoalMarker", geom |-> GoalMarkerGeom(goal)]

\* The effect of one append call on the scene.
Exec(s, c) ==
  CASE c.fn = "Draw2DRectangle" -> Draw2DRectangle(s, c.geom)
    [] c.fn = "Draw2DLine"      -> Draw2DLine(s, c.geom)
    [] c.fn = "Draw2DCircle"    -> Draw2DCircle(s, c.geom)
    [] c.fn = "AddLabel"        -> AddLabel(s, c.geom)
    [] c.fn = "GoalMarker"      -> AppendGoalMarker(s, c.geom)

RECURSIVE RunFrom(_, _, _)
\* The scene after the calls cs[k..] are made in order on scene s.
RunFrom(s, cs, k) ==
  IF k > Len(cs) THEN s
  ELSE LET t == Exec(s, cs[k])
       IN  IF t = s THEN RunFrom(s, cs, k + 1) ELSE RunFrom(t, cs, k + 1)

RunCalls(s, cs) == RunFrom(s, cs, 1)


-----------------------------------------------------------------------------
(* Gauge composers: each yields its append calls in call order.            *)

\* TickAngle of a loop that counts from 1.
TickAngleFromOne(i, n) == (i + 1) * (3600000 \div n)

\* i * (2 pi / n) in units of 0.0001 degree.
TickAngle(i, n) == i * (3600000 \div n)

\* ratio * 2 pi - pi / 2, for a ratio in millionths.
PointerAngle(ratio) == (ratio * 36) \div 10 - 900000

\* The sequence <<f(0), ..., f(n-1)>> of a loop for (i = 0; i < n; i++).
Loop(n, f(_)) == [k \in 1..n |-> f(k - 1)]

\* snprintf "%.1f" of speed_kmh and "%.0f" of rpm: the nearest multiple of
\* unit.  On the velocity grid speed_kmh is a multiple of 0.036 and rpm of
\* 1.44 (or 0.0 on a fresh instance), so neither is ever half way between
\* two printed values.
RoundDiv(value, unit) == (value + unit \div 2) \div unit

\* snprintf "%.1f" of the temperature: snprintf rounds the double, not the
\* decimal value, so half way between two tenths the side the double is on
\* decides, and a double that is exactly half way goes to the even tenth.
TempTenths(temperature, err) ==
  LET q == temperature \div 1000
  IN  IF temperature % 1000 # 500 THEN RoundDiv(temperature, 1000)
      ELSE IF err < 0 THEN q
      ELSE IF err > 0 THEN q + 1
      ELSE q + (q % 2)

\* SpeedRatio over a dial of 0-200 km/h.
SpeedRatioWideDial(d) ==
  LET speed_ratio == d.speed_kmh * 5
  IN  IF speed_ratio > 1000000 THEN 1000000 ELSE speed_ratio

SpeedRatio(d) ==
  LET speed_ratio == d.speed_kmh * 20
  IN  IF speed_ratio > 1000000 THEN 1000000 ELSE speed_ratio

DrawSpeedometer2D(d, x, y, size) ==
  LET minor(i) == Line(Polar(x, y, Mul(size, 8000), TickAngle(i, 12)),
                       Polar(x, y, Mul(size, 9000), TickAngle(i, 12)),
                       200, 1000, 1000, 2000, 8000)
      major(i) == Line(Polar(x, y, Mul(size, 7500), TickAngle(i, 4)),
                       Polar(x, y, Mul(size, 9000), TickAngle(i, 4)),
                       300, 0, 5000, 10000, 9000)
      number(i) == Label(Polar(x, y, Mul(size, 7000), TickAngle(i, 6) - 900000),
                         100, <<"%d", i * 10, 0>>, 1000, 1000, 1000, 9000)
      angle == PointerAngle(SpeedRatio(d))
      pointer_length == Mul(size, 6000)
      tail_length == Mul(size, 2000)
  IN  <<Circle(x, y, size, 7000, 7000, 7500, 7000),
        Circle(x, y, Mul(size, 10500), 4000, 7000, 10000, 6000),
        Circle(x, y, Mul(size, 9500), 3000, 3000, 4000, 8000)>>
      \o Loop(12, minor)
      \o Loop(4, major)
      \o Loop(6, number)
      \o <<Line(Pt(x, y), Polar(x, y, pointer_length, angle),
                250, 10000, 0, 0, 10000),
           Line(Pt(x, y), Polar(x, y, 0 - Mul(tail_length, 3000), angle),
                200, 10000, 0, 0, 10000),
           Circle(x, y, Mul(size, 600), 0, 0, 0, 10000),
           Circle(x, y, Mul(size, 400), 10000, 10000, 10000, 10000),
           Label(Pt(x, y), 200, <<"%.1f", RoundDiv(d.speed_kmh, 100), 0>>,
                 1500, 1500, 1000, 9000),
           Label(Pt(x, y - Mul(size, 2500)), 200, <<"km/h", 0, 0>>,
                 800, 0, 3000, 8000),
           Label(Pt(x, y + Mul(size, 12000)), 200, <<"SPEED", 0, 0>>,
                 1500, 0, 5000, 10000)>>

RpmRatio(d) ==
  LET rpm_ratio == d.rpm \div 8
  IN  IF rpm_ratio > 1000000 THEN 1000000 ELSE rpm_ratio

DrawTachometer2D(d, x, y, size) ==
  LET warning_ratio0 == (d.rpm - 6000000) \div 200
      warning_ratio == IF warning_ratio0 > 10000 THEN 10000 ELSE warning_ratio0
      warn(i) == Circle(x, y, Mul(size, 9000 - i * 500), 10000, 3000, 3000,
                        Mul(3000 + (7000 * i) \div 3, warning_ratio))
      minor(i) == Line(Polar(x, y, Mul(size, 8000), TickAngle(i, 12)),
                       Polar(x, y, Mul(size, 9000), TickAngle(i, 12)),
                       200, 1000, 1000, 2000, 8000)
      number(i) == Label(Polar(x, y, Mul(size, 7000), TickAngle(i, 5) - 900000),
                         100, <<"%d", i * 2, 0>>, 1000, 1000, 1000, 9000)
      angle == PointerAngle(RpmRatio(d))
      pointer_length == Mul(size, 6000)
      tail_length == Mul(size, 2000)
  IN  <<Circle(x, y, size, 7500, 7500, 7000, 7000),
        Circle(x, y, Mul(size, 10500), 10000, 6000, 3000, 6000),
        Circle(x, y, Mul(size, 9500), 4000, 3000, 2000, 8000)>>
      \o (IF d.rpm > 6000000 THEN Loop(3, warn) ELSE <<>>)
      \o Loop(12, minor)
      \o Loop(5, number)
      \o <<Line(Pt(x, y), Polar(x, y, pointer_length, angle),
                250, 0, 10000, 0, 10000),
           Line(Pt(x, y), Polar(x, y, 0 - Mul(tail_length, 3000), angle),
                200, 0, 10000, 0, 10000),
           Circle(x, y, Mul(size, 600), 0, 0, 0, 10000),
           Circle(x, y, Mul(size, 400), 10000, 10000, 10000, 10000),
           Label(Pt(x, y), 200, <<"%.0f", RoundDiv(d.rpm, 1000), 0>>,
                 1500, 1500, 1000, 9000),
           Label(Pt(x, y - Mul(size, 2500)), 200, <<"RPM", 0, 0>>,
                 800, 0, 3000, 8000),
           Label(Pt(x, y + Mul(size, 12000)), 200, <<"TACHOMETER", 0, 0>>,
                 1500, 10000, 5000, 0)>>
      \o (IF d.rpm > 6000000
          THEN <<Label(Pt(x, y - Mul(size, 14000)), 200, <<"HIGH RPM!", 0, 0>>,
                       1200, 10000, 1000, 1000)>>
          ELSE <<>>)

\* fuel < n and fuel > n for a whole number n of percent (20.0f, 50.0f).
FuelBelow(fuel, n) == IsNegative(fuel) \/ fuel.mag[1] < 4 * n

FuelAbove(fuel, n) ==
  /\ ~fuel.neg
  /\ \/ fuel.mag[1] > 4 * n
     \/ fuel.mag[1] = 4 * n /\ <<fuel.mag[2], fuel.mag[3], fuel.mag[4]>> /= <<0, 0, 0>>

\* fuel_width > 0.01f, where fuel_width = (fuel / 100.0f) * width: decided
\* on the exact product (no value of the reserve lies within rounding
\* distance of the threshold).
FuelBarDrawn(fuel, width) ==
  LET prod == FTimes(fuel, width \div 100)
  IN  /\ ~fuel.neg
      /\ \/ prod[1] > 400
         \/ prod[1] = 400 /\ <<prod[2], prod[3], prod[4]>> /= <<0, 0, 0>>

\* fmod(blink_timer, 1.0f) > 0.5f
BlinkVisible(timer) == timer % TimerOne > TimerOne \div 2

\* The value of the static blink_timer after a DrawFuelGauge2D call.
BlinkAfter(d, width, timer) ==
  IF FuelBarDrawn(d.fuel, width) /\ FuelBelow(d.fuel, 20)
  THEN Float32Add(timer, BlinkInc)
  ELSE timer

\* The ramp with the red band starting at 21 instead of 20.
FuelColorRedUnder21(fuel) ==
  IF FuelAbove(fuel, 50) THEN <<2000, 10000, 2000>>
  ELSE IF FuelAbove(fuel, 21) THEN <<10000, 10000, 2000>>
  ELSE <<10000, 2000, 2000>>

FuelColor(fuel) ==
  IF FuelAbove(fuel, 50) THEN <<2000, 10000, 2000>>
  ELSE IF FuelAbove(fuel, 20) THEN <<10000, 10000, 2000>>
  ELSE <<10000, 2000, 2000>>

DrawFuelGauge2D(d, x, y, width, height, timer) ==
  LET fuel_width == FScaleFloor(d.fuel, width \div 100)
      fuel_x == x - (width - fuel_width) \div 2
      fuel_height == Mul(height, 8000)
      color == FuelColor(d.fuel)
      blink == BlinkAfter(d, width, timer)
      marker(i) == Line(Pt(x - width \div 2 + (width \div 5) * i, y - Mul(height, 4000)),
                        Pt(x - width \div 2 + (width \div 5) * i, y - Mul(height, 2000)),
                        200, 2000, 2000, 3000, 8000)
  IN  (IF FuelBarDrawn(d.fuel, width)
       THEN <<Rect(fuel_x, y, fuel_width, fuel_height,
                   color[1], color[2], color[3], 10000),
              Rect(fuel_x, y, fuel_width, fuel_height, 0, 0, 0, 3000)>>
            \o (IF FuelBelow(d.fuel, 20) /\ BlinkVisible(blink)
                THEN <<Rect(x, y, width, height, 10000, 2000, 2000, 3000)>>
                ELSE <<>>)
       ELSE <<Rect(x, y, width, Mul(height, 6000), 3000, 3000, 3000, 5000)>>)
      \o <<Label(Pt(x, y + Mul(height, 8000)), 200,
                 <<"FUEL: %.1f%%", FScaleRound(d.fuel, 10), 0>>,
                 1000, 1000, 1000, 10000)>>
      \o (IF FuelBelow(d.fuel, 20)
          THEN <<Label(Pt(x, y - Mul(height, 8000)), 200, <<"LOW FUEL!", 0, 0>>,
                       1200, 10000, 1000, 1000)>>
          ELSE <<>>)
      \o Loop(6, marker)

TempRatio(d) ==
  LET temp_ratio == (d.temperature - 600000) \div 60
  IN  IF temp_ratio < 0 THEN 0
      ELSE IF temp_ratio > 10000 THEN 10000 ELSE temp_ratio

TempBarDrawn(d, width) == Mul(TempRatio(d), width) > 100

\* The value of the static heat_timer after a DrawTemperatureGauge2D call.
HeatAfter(d, width, timer) ==
  IF TempBarDrawn(d, width) /\ d.temperature > 1000000
  THEN Float32Add(timer, HeatInc)
  ELSE timer

TempColor(temp_ratio) ==
  IF temp_ratio < 5000
  THEN LET t == temp_ratio * 2
       IN  <<Mul(3000, 10000 - t), 5000 + Mul(5000, t), 10000 - t>>
  ELSE IF temp_ratio < 8000
  THEN LET t == ((temp_ratio - 5000) * 10) \div 3
       IN  <<3000 + Mul(7000, t), 10000 - Mul(2000, t), Mul(5000, 10000 - t)>>
  ELSE LET t == (temp_ratio - 8000) * 5
       IN  <<10000, Mul(8000, 10000 - t), Mul(2000, 10000 - t)>>

\* The label format is "TEMP: %.1f" followed by a degree sign and C; the
\* degree sign is written here as a space.
DrawTemperatureGauge2D(d, x, y, width, height, timer) ==
  LET temp_ratio == TempRatio(d)
      temp_width == Mul(temp_ratio, width)
      temp_x == x - (width - temp_width) \div 2
      temp_height == Mul(height, 8000)
      color == TempColor(temp_ratio)
      heat == HeatAfter(d, width, timer)
      pulse == [RectGeom(x, y, width, height, 10000, 3000, 3000, 0)
                  EXCEPT !.phase = heat]
      marker(i) == Line(Pt(x - width \div 2 + (width \div 5) * i, y - Mul(height, 4000)),
                        Pt(x - width \div 2 + (width \div 5) * i, y - Mul(height, 2000)),
                        200, 2000, 2000, 3000, 8000)
      marker_ratio == (d.temperature - 600000) \div 60
      marker_x == x - width \div 2 + Mul(width, marker_ratio)
  IN  (IF TempBarDrawn(d, width)
       THEN <<Rect(temp_x, y, temp_width, temp_height,
                   color[1], color[2], color[3], 10000),
              Rect(temp_x, y, temp_width, temp_height, 0, 0, 0, 3000)>>
            \o (IF d.temperature > 1000000
                THEN <<[fn |-> "Draw2DRectangle", geom |-> pulse]>>
                ELSE <<>>)
       ELSE <<Rect(x, y, width, Mul(height, 6000), 3000, 3000, 3000, 5000)>>)
      \o <<Label(Pt(x, y + Mul(height, 8000)), 200,
                 <<"TEMP: %.1f C", TempTenths(d.temperature, d.temperature_err), 0>>,
                 1000, 1000, 1000, 10000)>>
      \o (IF d.temperature > 1000000
          THEN <<Label(Pt(x, y - Mul(height, 8000)), 200, <<"OVERHEAT!", 0, 0>>,
                       1200, 10000, 1000, 1000)>>
          ELSE <<>>)
      \o Loop(6, marker)
      \o (IF marker_ratio >= 0 /\ marker_ratio <= 10000
          THEN <<Line(Pt(marker_x, y - Mul(height, 4000)),
                      Pt(marker_x - 500, y - Mul(height, 2000)),
                      300, 0, 0, 0, 8000),
                 Line(Pt(marker_x, y - Mul(height, 4000)),
                      Pt(marker_x + 500, y - Mul(height, 2000)),
                      300, 0, 0, 0, 8000)>>
          ELSE <<>>)


-----------------------------------------------------------------------------
(* The render pass.                                                        *)

\* snprintf "%.2f" of a coordinate n/16: hundredths, to nearest, ties to even.
Hundredths(n) ==
  LET m   == IF n < 0 THEN 0 - n ELSE n
      q   == (25 * m) \div 4
      rem == (25 * m) % 4
      h   == IF rem > 2 \/ (rem = 2 /\ q % 2 = 1) THEN q + 1 ELSE q
  IN  IF n < 0 THEN 0 - h ELSE h

\* data->xpos + 3 * car_body_id: the world position of body car_id.
CarXpos(xp, car_id) == xp[car_id]

\* The car position label, whether or not the model has a body named "car"
\* (without one, labelling the world body).
CarLabelUnguarded(car_id, xp) ==
  LET car_pos == CarXpos(xp, IF car_id < 0 THEN 0 ELSE car_id)
  IN  <<Label(Pt(car_pos[1] * 625, car_pos[2] * 625), car_pos[3] + 20000,
              <<"Car: (%.2f, %.2f)", Hundredths(car_pos[1]), Hundredths(car_pos[2])>>,
              1000, 0, 10000, 0)>>

\* if (car_body_id >= 0) { ... AddLabel(...) }
CarLabel(car_id, xp) ==
  IF car_id >= 0
  THEN LET car_pos == CarXpos(xp, car_id)
       IN  <<Label(Pt(car_pos[1] * 625, car_pos[2] * 625), car_pos[3] + 20000,
                   <<"Car: (%.2f, %.2f)", Hundredths(car_pos[1]),
                     Hundredths(car_pos[2])>>,
                   1000, 0, 10000, 0)>>
  ELSE <<>>

\* Every append call of one ModifyScene pass past its entry guard, in order.
PassCalls(d, goal, car_id, xp, blink, heat) ==
      <<Label(Pt(0, 25000), 5000, <<"CAR DASHBOARD", 0, 0>>, 2500, 0, 5000, 10000)>>
      \o DrawSpeedometer2D(d, 0 - 25000, 10000, 8000)
      \o DrawTachometer2D(d, 25000, 10000, 8000)
      \o DrawFuelGauge2D(d, 0 - 25000, 0 - 5000, 15000, 4000, blink)
      \o DrawTemperatureGauge2D(d, 25000, 0 - 5000, 15000, 4000, heat)
      \o <<Marker(goal)>>
      \o CarLabel(car_id, xp)
      \o <<Label(Pt(goal[1] * 625, goal[2] * 625), 5000,
                 <<"Goal: (%.2f, %.2f)", Hundredths(goal[1]), Hundredths(goal[2])>>,
                 1000, 10000, 0, 0)>>

\* if (!scene || scene->maxgeom == 0) return;
PassSkipped(s) == s.null \/ s.maxgeom = 0

\* The scene after a ModifyScene pass.
SceneAfterPass(s, d, goal, car_id, xp, blink, heat) ==
  IF PassSkipped(s) THEN s
  ELSE RunCalls(s, PassCalls(d, goal, car_id, xp, blink, heat))

-----------------------------------------------------------------------------
(* Inputs.                                                                 *)

Instances == {"A", "B"}

\* Velocities (vx, vy), 0.01 m/s: at rest, (10, 0) m/s, negative components
\* of norm 40 m/s (above the 6000 rpm and 100 C thresholds), and 300 m/s
\* (far beyond the rpm clamp).
Velocities ==
  {<<0, 0>>, <<1000, 0>>, <<0 - 2400, 0 - 3200>>, <<0 - 30000, 0>>}

\* Car positions and goal positions, 1/16 units.
CarPositions == {<<1, 0>>}

\* data->xpos of a model whose bodies are the world (id 0, at the origin)
\* and one more body (id 1) at p.
BodyPositions(p) == [b \in 0..1 |-> IF b = 0 THEN <<0, 0, 0>> ELSE p]

\* Velocities whose temperature is half way between two printed tenths:
\* 1.25 m/s (67.35 C, printed 67.3), 6.25 m/s (72.75 C, printed 72.8),
\* 18.75 m/s (86.25 C, printed 86.2), and 46.25 m/s (115.95 C) along an axis
\* (printed 116.0) and off it (printed 115.9).
TieVelocities ==
  {<<125, 0>>, <<625, 0>>, <<0, 0 - 1875>>, <<4625, 0>>, <<136, 4623>>}

\* (4, 1) is within 0.2 of the car at (1, 0) (distance sqrt(10)/16), (4, 2)
\* is not (sqrt(13)/16).
InitGoals == {<<4, 1, 50>>, <<4, 2, 1>>}

\* Values absl::Uniform<double>(gen, -2.0, 2.0) can return, per axis pair.
GoalDraws == {<<0 - 32, 0 - 32>>, <<31, 16>>, <<2, 0 - 1>>}

\* Scene capacity and entry count <<maxgeom, ngeom>> offered by the host.
InitScenes == {<<0, 0>>, <<34, 2>>, <<95, 95>>, <<200, 2>>}

\* A geom the host put into the scene before the pass.
HostGeom(k) ==
  [type |-> "HOST", from |-> Pt(k, 0), to |-> Pt(k, 0), z |-> 0,
   size |-> <<0, 0, 0>>, rgba |-> <<0, 0, 0, 0>>, phase |-> NoPhase,
   mat |-> "identity", label |-> <<"host", k, 0>>, category |-> "HOST"]

HostScene(c, n) ==
  [null |-> FALSE, maxgeom |-> c, geoms |-> [k \in 1..n |-> HostGeom(k)]]

\* The reserve after k updates of a fresh instance, for the k at which the
\* model starts runs (SpecFuel reaches each: see C3_FuelCycle).
FuelAt(k) ==
  CASE k = 0     -> Fuel100
    [] k = 49999 -> DPos(<<200, 4194, 318154, 655360>>)
    [] k = 79000 -> DPos(<<83, 1048575, 1048088, 933888>>)
    [] k = 79999 -> DPos(<<80, 4194, 318274, 655360>>)
    [] k = 85000 -> DPos(<<59, 1048575, 1048064, 483328>>)
    [] k = 99333 -> DPos(<<2, 700448, 804807, 488448>>)
    [] k = 99999 -> DPos(<<0, 4194, 318268, 208924>>)

Checkpoints == {49999, 79000, 79999, 85000, 99333, 99999}

\* The telemetry of an instance after k updates, the last at velocity v.
DashboardAfter(k, v) ==
  IF k = 0 THEN FreshDashboard
  ELSE [UpdateDashboardData(FreshDashboard, v)
          EXCEPT !.fuel = FuelAt(k), !.simulated_fuel = FuelAt(k)]

\* blink_timer after 5 and after 6 advances from 0.0f (0.5 and 0x1.333334p-1).
BlinkStarts == {0, 134217728, 161061280}

NoOp ==
  [op |-> "init", inst |-> "A", n0 |-> 0, ncalls |-> 0, redraws |-> 0,
   skipped |-> FALSE, alone |-> TRUE]

-----------------------------------------------------------------------------
(* Operations.                                                             *)

\* WithinTolerance with a tolerance of 0.25.
WithinToleranceWide(car, goal) ==
  (goal[1] - car[1]) * (goal[1] - car[1])
  + (goal[2] - car[2]) * (goal[2] - car[2]) < 16

\* mju_norm(car_to_goal, 2) < 0.2, on the 1/16 grid.
WithinTolerance(car, goal) ==
  25 * ((goal[1] - car[1]) * (goal[1] - car[1])
        + (goal[2] - car[2]) * (goal[2] - car[2])) < 256

\* The goal after the transition test, g being the pair the generator draws.
GoalAfter(car, goal, g) ==
  IF WithinTolerance(car, goal) THEN <<g[1], g[2], 1>> ELSE goal

TransitionLocked(i, draws) ==
  /\ \E g \in draws : mocap_pos' = GoalAfter(qpos, mocap_pos, g)
  /\ dashboard' = [dashboard EXCEPT ![i] = UpdateDashboardData(@, qvel)]
  /\ updates' = [updates EXCEPT ![i] = @ + 1]
  /\ wraps' = [wraps EXCEPT ![i] = @ + (IF FuelWraps(dashboard[i]) THEN 1 ELSE 0)]
  /\ last' = [NoOp EXCEPT !.op = "step", !.inst = i,
                          !.redraws = IF WithinTolerance(qpos, mocap_pos) THEN 1 ELSE 0]
  /\ UNCHANGED <<qpos, qvel, xpos, car_body_id, scene, blink_timer, heat_timer,
                 passes, solo>>

ModifyScene(i) ==
  LET d == dashboard[i]
      skip == PassSkipped(scene)
      cs == PassCalls(d, mocap_pos, car_body_id, xpos, blink_timer, heat_timer)
      own == PassCalls(d, mocap_pos, car_body_id, xpos, solo[i].blink, solo[i].heat)
  IN  /\ scene' = SceneAfterPass(scene, d, mocap_pos, car_body_id, xpos,
                                 blink_timer, heat_timer)
      /\ blink_timer' = IF skip THEN blink_timer
                        ELSE BlinkAfter(d, 15000, blink_timer)
      /\ heat_timer' = IF skip THEN heat_timer
                       ELSE HeatAfter(d, 15000, heat_timer)
      /\ solo' = IF skip THEN solo
                 ELSE [solo EXCEPT ![i] =
                         [blink |-> BlinkAfter(d, 15000, solo[i].blink),
                          heat |-> HeatAfter(d, 15000, solo[i].heat)]]
      /\ last' = [NoOp EXCEPT !.op = "render", !.inst = i,
                              !.n0 = Len(scene.geoms),
                              !.ncalls = IF skip THEN 0 ELSE Len(cs),
                              !.skipped = skip,
                              !.alone = \/ skip
                                        \/ /\ blink_timer = solo[i].blink
                                           /\ heat_timer = solo[i].heat
                                        \/ cs = own]
      /\ passes' = passes + 1
      /\ UNCHANGED <<dashboard, qpos, qvel, xpos, mocap_pos, car_body_id, updates, wraps>>

-----------------------------------------------------------------------------
(* Specifications.                                                         *)

\* One instance, started fresh or after a known number of updates, stepped
\* and rendered in any order.
Init ==
  /\ \E k \in {0} \cup Checkpoints : \E v \in Velocities :
       /\ qvel = v
       /\ dashboard = [i \in Instances |-> IF i = "A" THEN DashboardAfter(k, v)
                                                      ELSE FreshDashboard]
       /\ updates = [i \in Instances |-> IF i = "A" THEN k ELSE 0]
  /\ qpos \in CarPositions
  /\ xpos = BodyPositions(<<qpos[1], qpos[2], 300>>)
  /\ mocap_pos \in InitGoals
  /\ car_body_id \in {0 - 1, 1}
  /\ scene \in {NullScene} \cup {HostScene(c[1], c[2]) : c \in InitScenes}
  /\ blink_timer \in BlinkStarts
  /\ blink_timer /= 0 => updates["A"] \in {85000, 99333}
  /\ heat_timer = 0
  /\ solo = [i \in Instances |-> [blink |-> blink_timer, heat |-> heat_timer]]
  /\ wraps = [i \in Instances |-> 0]
  /\ last = NoOp
  /\ steps = 0
  /\ passes = 0

Step ==
  /\ steps < MaxSteps
  /\ steps' = steps + 1
  /\ TransitionLocked("A", GoalDraws)

Render ==
  /\ passes < MaxPasses
  /\ UNCHANGED steps
  /\ ModifyScene("A")

Next == Step \/ Render

Spec == Init /\ [][Next]_vars

\* A fresh instance stepped through a whole cycle of the fuel reserve.  The
\* car sits on the goal, so the first step relocates it; later goals are
\* drawn near the car or away from it.
FuelDraws == {<<2, 0 - 1>>, <<31, 16>>}

InitFuel ==
  /\ qvel = <<1000, 0>>
  /\ dashboard = [i \in Instances |-> FreshDashboard]
  /\ updates = [i \in Instances |-> 0]
  /\ qpos = <<1, 0>>
  /\ xpos = BodyPositions(<<1, 0, 300>>)
  /\ mocap_pos = <<4, 1, 50>>
  /\ car_body_id = 1
  /\ scene = NullScene
  /\ blink_timer = 0
  /\ heat_timer = 0
  /\ solo = [i \in Instances |-> [blink |-> 0, heat |-> 0]]
  /\ wraps = [i \in Instances |-> 0]
  /\ last = NoOp
  /\ steps = 0
  /\ passes = 0

FuelStep ==
  /\ steps < MaxUpdates
  /\ steps' = steps + 1
  /\ TransitionLocked("A", FuelDraws)

NextFuel == FuelStep

SpecFuel == InitFuel /\ [][NextFuel]_vars

\* Two instances rendering into the same process, A hot and low on fuel, B
\* either like A or cool with fuel to spare.
InitTwo ==
  /\ qvel = <<0 - 2400, 0 - 3200>>
  /\ \E kb \in {79000, 85000} : \E vb \in {<<1000, 0>>, <<0 - 2400, 0 - 3200>>} :
       /\ dashboard = [i \in Instances |-> IF i = "A" THEN DashboardAfter(85000, qvel)
                                                      ELSE DashboardAfter(kb, vb)]
       /\ updates = [i \in Instances |-> IF i = "A" THEN 85000 ELSE kb]
  /\ qpos = <<1, 0>>
  /\ xpos = BodyPositions(<<1, 0, 300>>)
  /\ mocap_pos = <<4, 2, 1>>
  /\ car_body_id = 1
  /\ scene = HostScene(200, 2)
  /\ blink_timer = 0
  /\ heat_timer = 0
  /\ solo = [i \in Instances |-> [blink |-> 0, heat |-> 0]]
  /\ wraps = [i \in Instances |-> 0]
  /\ last = NoOp
  /\ steps = 0
  /\ passes = 0

RenderTwo ==
  /\ passes < MaxFrames
  /\ UNCHANGED steps
  /\ \E i \in Instances : ModifyScene(i)

NextTwo == RenderTwo

SpecTwo == InitTwo /\ [][NextTwo]_vars

\* The gauges over the telemetry a running instance holds: the dashboard
\* after k updates (k = 0 or one of three checkpoints) at a velocity that
\* may be one of the rounding ties of the temperature label, with a car body
\* that is body 0 or body 1, at the car's joint position or elsewhere.  The
\* reserve is always the one UpdateDashboardData stores: the steps from the
\* checkpoints 49,999 and 79,999 take it across 50 and across 20.
InitGauge ==
  /\ qvel \in Velocities \cup TieVelocities
  /\ \E k \in {0, 49999, 79999, 85000} :
       /\ dashboard = [i \in Instances |->
                         IF i = "A" THEN DashboardAfter(k, qvel) ELSE FreshDashboard]
       /\ updates = [i \in Instances |-> IF i = "A" THEN k ELSE 0]
  /\ qpos = <<1, 0>>
  /\ xpos \in {BodyPositions(<<1, 0, 300>>), BodyPositions(<<16, 32, 5000>>)}
  /\ mocap_pos = <<4, 2, 1>>
  /\ car_body_id \in {0, 1}
  /\ scene = HostScene(200, 2)
  /\ blink_timer \in BlinkStarts
  /\ blink_timer /= 0 => updates["A"] = 85000
  /\ heat_timer = 0
  /\ solo = [i \in Instances |-> [blink |-> blink_timer, heat |-> heat_timer]]
  /\ wraps = [i \in Instances |-> 0]
  /\ last = NoOp
  /\ steps = 0
  /\ passes = 0

SpecGauge == InitGauge /\ [][Next]_vars

-----------------------------------------------------------------------------
(* Vocabulary of the properties.                                           *)

\* The geoms a sequence of emitter calls asks for, in call order.
GeomsOf(cs) == [k \in 1..Len(cs) |-> cs[k].geom]

\* The first n elements of a sequence.
Prefix(q, n) == [k \in 1..n |-> q[k]]

Min(a, b) == IF a < b THEN a ELSE b
Max(a, b) == IF a > b THEN a ELSE b

\* The calls the pass of instance A makes in the current state.
CallsNow ==
  PassCalls(dashboard["A"], mocap_pos, car_body_id, xpos, blink_timer, heat_timer)

\* The step just taken was a render pass that got past its entry guard.
Rendered == last.op = "render" /\ ~last.skipped

-----------------------------------------------------------------------------
(* Scene capacity.                                                         *)

\* C1: the scene never holds more entries than its capacity, and a pass
\* entered with n0 entries in a scene of capacity C keeps the first C - n0
\* geoms it asks for, in call order, after the entries already there, and
\* drops the rest.
C1_CapacityNeverExceeded ==
  /\ [](Len(scene.geoms) <= scene.maxgeom)
  /\ [][(last'.op = "render" /\ passes' = passes + 1 /\ ~last'.skipped) =>
          LET room == scene.maxgeom - Len(scene.geoms)
              kept == Min(Len(CallsNow), room)
          IN  /\ scene'.maxgeom = scene.maxgeom
              /\ scene'.geoms = scene.geoms \o Prefix(GeomsOf(CallsNow), kept)]_vars

\* A pass entered below capacity that asked for more than the room left: it
\* retained some geoms and dropped others.
C1_Witness ==
  /\ Rendered
  /\ last.n0 < scene.maxgeom
  /\ last.ncalls > scene.maxgeom - last.n0
  /\ Len(scene.geoms) = scene.maxgeom

-----------------------------------------------------------------------------
(* Telemetry.                                                              *)

\* C2: after any telemetry update of an instance, speed_kmh >= 0,
\* 800 <= rpm <= 8000, 60 <= temperature <= 120, 0 <= fuel <= 100, and the
\* displayed fuel equals the internal reserve (finite velocities).
C2_TelemetryRanges ==
  updates["A"] >= 1 =>
    LET d == dashboard["A"]
    IN  /\ d.speed_kmh >= 0
        /\ d.rpm >= 800000 /\ d.rpm <= 8000000
        /\ d.temperature >= 600000 /\ d.temperature <= 1200000
        /\ ~IsNegative(d.fuel)
        /\ ~FLess(Fuel100.mag, d.fuel.mag)
        /\ d.fuel = d.simulated_fuel

\* An update at 300 m/s in the negative x direction: speed is positive and
\* the rpm and temperature ceilings are what hold the values in range.
C2_Witness ==
  /\ last.op = "step"
  /\ qvel[1] < 0
  /\ dashboard["A"].speed_kmh > 180000
  /\ dashboard["A"].rpm = 8000000
  /\ dashboard["A"].temperature = 1200000

\* C3 (as amended): every TransitionLocked step performs one telemetry
\* update, goal relocated or not; each update lowers the reserve by 0.001,
\* rounded to double; the reserve is never negative after an update; the
\* displayed fuel equals it; and a fresh instance wraps to exactly 100.0 on
\* update 100,000, because the rounded reserve after 99,999 updates is
\* slightly below 0.001.
C3_FuelCycle ==
  LET f == dashboard["A"].simulated_fuel
      milli == FScaleRound(f, 1000)
  IN  /\ updates["A"] = steps
      /\ dashboard["A"].fuel = f
      /\ ~IsNegative(f)
      /\ steps < 100000 => wraps["A"] = 0 /\ milli = 100000 - steps
      /\ steps = 100000 => f = Fuel100
      /\ steps >= 100000 => wraps["A"] = 1 /\ milli = 200000 - steps
      /\ steps \in {0} \cup Checkpoints => f = FuelAt(steps)

\* The state after update 100,001: the reserve has wrapped once, one update
\* earlier, and is 99.999 again.
C3_Witness ==
  /\ steps = 100001
  /\ wraps["A"] = 1
  /\ FScaleRound(dashboard["A"].simulated_fuel, 1000) = 99999
  /\ last.redraws = 0

\* C3 as stated: the reserve of a fresh instance wraps on update 100,001 and
\* not before.
C3_WrapsOnUpdate100001 ==
  /\ steps <= 100000 => wraps["A"] = 0
  /\ steps = 100001 => wraps["A"] = 1 /\ dashboard["A"].simulated_fuel = Fuel100

\* C5: an update stores speed_kmh = |v| * 3.6, rpm = clamp(800 + 40 *
\* speed_kmh, 800, 8000) and temperature = clamp(60 + 60 * rpm / 8000, 60,
\* 120); at velocity (10, 0) that is 36.0 km/h, 2240 rpm and 76.8 C; and the
\* speedometer pointer is drawn at ratio clamp(speed_kmh / 50, 0, 1), 0.72
\* at (10, 0).
C5_TelemetryFormulas ==
  LET d == dashboard["A"]
      rpm == Max(800000, Min(8000000, 800000 + 40 * d.speed_kmh))
      ratio == Max(0, Min(1000000, (d.speed_kmh * 1000) \div 50))
      pointer == scene.geoms[last.n0 + 27]
  IN  /\ updates["A"] >= 1 =>
           /\ d.speed_kmh >= 0 /\ d.speed_kmh % 36 = 0
           /\ (d.speed_kmh \div 36) * (d.speed_kmh \div 36)
                = qvel[1] * qvel[1] + qvel[2] * qvel[2]
           /\ d.rpm = rpm
           /\ d.temperature = Max(600000, Min(1200000, 600000 + (60 * rpm) \div 800))
           /\ qvel = <<1000, 0>> =>
                d.speed_kmh = 36000 /\ d.rpm = 2240000 /\ d.temperature = 768000
      /\ (Rendered /\ Len(scene.geoms) >= last.n0 + 27) =>
           /\ pointer.type = "BOX"
           /\ pointer.rgba = <<10000, 0, 0, 10000>>
           /\ pointer.to.a = (ratio * 360) \div 100 - 900000
           /\ (updates["A"] >= 1 /\ qvel = <<1000, 0>>) =>
                ratio = 720000 /\ pointer.to.a = 1692000

\* A pass after an update at (10, 0): the pointer stands at 0.72 of a turn.
C5_Witness ==
  /\ Rendered
  /\ updates["A"] >= 1
  /\ qvel = <<1000, 0>>
  /\ dashboard["A"].rpm = 2240000
  /\ Len(scene.geoms) >= last.n0 + 27
  /\ scene.geoms[last.n0 + 27].to.a = 1692000

-----------------------------------------------------------------------------
(* Goal relocation.                                                        *)

\* C4: a step relocates the goal exactly when the planar distance from the
\* car to the goal is below 0.2; the new goal has x and y in [-2, 2] and
\* z = 0.01; exactly one redraw happens in the step; the car's position is
\* not touched; otherwise the goal stays where it is.
C4_GoalRelocation ==
  [][(last'.op = "step" /\ steps' = steps + 1) =>
       LET dx == mocap_pos[1] - qpos[1]
           dy == mocap_pos[2] - qpos[2]
           near == 25 * (dx * dx + dy * dy) < 256
       IN  /\ qpos' = qpos
           /\ near => /\ mocap_pos'[1] \in (0 - 32)..32
                      /\ mocap_pos'[2] \in (0 - 32)..32
                      /\ mocap_pos'[3] = 1
                      /\ last'.redraws = 1
           /\ ~near => /\ mocap_pos' = mocap_pos
                       /\ last'.redraws = 0]_vars

\* A relocation whose new goal is again within 0.2 of the car: it was drawn
\* once and left there.
C4_Witness ==
  /\ last.op = "step"
  /\ last.redraws = 1
  /\ mocap_pos[3] = 1
  /\ 25 * ((mocap_pos[1] - qpos[1]) * (mocap_pos[1] - qpos[1])
           + (mocap_pos[2] - qpos[2]) * (mocap_pos[2] - qpos[2])) < 256

-----------------------------------------------------------------------------
(* The render pass.                                                        *)

\* The geoms a pass appended, given the scene before and after it.
NewGeoms(before, after) == SubSeq(after.geoms, Len(before.geoms) + 1, Len(after.geoms))

HasLowFuelLabel(q) == \E k \in 1..Len(q) : q[k].label[1] = "LOW FUEL!"

\* The translucent red rectangle over the whole fuel gauge.
HasBlinkRectangle(q) ==
  \E k \in 1..Len(q) :
    /\ q[k].type = "BOX"
    /\ q[k].from = Pt(0 - 25000, 0 - 5000)
    /\ q[k].rgba = <<10000, 2000, 2000, 3000>>

\* C6 as stated: a pass with room for all its geoms appends the "LOW FUEL!"
\* label when fuel < 20, and the blink rectangle too when the timer is in
\* its visible phase; when fuel >= 20 it appends neither and leaves the
\* blink timer alone.
C6_LowFuelWarning ==
  [][(/\ last'.op = "render"
      /\ passes' = passes + 1
      /\ ~last'.skipped
      /\ Len(scene'.geoms) - Len(scene.geoms) = last'.ncalls) =>
       LET new == NewGeoms(scene, scene')
       IN  IF FuelBelow(dashboard["A"].fuel, 20)
           THEN /\ HasLowFuelLabel(new)
                /\ BlinkVisible(blink_timer') => HasBlinkRectangle(new)
           ELSE /\ ~HasLowFuelLabel(new)
                /\ ~HasBlinkRectangle(new)
                /\ blink_timer' = blink_timer]_vars

\* C7: a pass only appends: entries already in the scene keep their place
\* and content, the count never goes down, and a pass over a null scene, a
\* scene of capacity 0 or a full scene leaves the scene as it was.
C7_PassOnlyAppends ==
  [][(last'.op = "render" /\ passes' = passes + 1) =>
       /\ scene'.null = scene.null
       /\ scene'.maxgeom = scene.maxgeom
       /\ Len(scene'.geoms) >= Len(scene.geoms)
       /\ \A k \in 1..Len(scene.geoms) : scene'.geoms[k] = scene.geoms[k]
       /\ (scene.null \/ scene.maxgeom = 0 \/ Len(scene.geoms) = scene.maxgeom)
            => scene' = scene]_vars

\* A pass over a scene the host had put entries in: they are still there,
\* followed by the pass's own.
C7_Witness ==
  /\ Rendered
  /\ last.n0 > 0
  /\ Len(scene.geoms) > last.n0
  /\ \A k \in 1..last.n0 : scene.geoms[k] = HostGeom(k)

\* C8 as stated: what an instance's pass emits depends on that instance's
\* own passes only, so it is what the instance would emit had no other
\* instance rendered in the process.
C8_InstancesIndependent == last.op = "render" => last.alone

\* The name of a geom that marks a stage of the pass, "" for any other.
Landmark(g) ==
  IF g.type = "SPHERE" THEN "goal marker"
  ELSE IF g.label[1] \in {"CAR DASHBOARD", "SPEED", "TACHOMETER", "FUEL: %.1f%%",
                          "TEMP: %.1f C", "Car: (%.2f, %.2f)", "Goal: (%.2f, %.2f)"}
  THEN g.label[1]
  ELSE ""

Landmarks(q) ==
  LET marked(g) == Landmark(g) /= ""
      m == SelectSeq(q, marked)
  IN  [k \in 1..Len(m) |-> Landmark(m[k])]

\* C9: without a body named "car" the pass emits what it would emit with
\* one, minus the car position label: the title, the four gauges, the goal
\* marker and the goal label, in that order.
C9_NoCarBody ==
  [][(/\ last'.op = "render"
      /\ passes' = passes + 1
      /\ ~last'.skipped
      /\ car_body_id < 0) =>
       LET with == PassCalls(dashboard["A"], mocap_pos, 1, xpos, blink_timer, heat_timer)
           notcar(c) == c.geom.label[1] /= "Car: (%.2f, %.2f)"
           minus == GeomsOf(SelectSeq(with, notcar))
           room == scene.maxgeom - Len(scene.geoms)
       IN  /\ Len(minus) = Len(with) - 1
           /\ scene'.geoms = scene.geoms \o Prefix(minus, Min(Len(minus), room))
           /\ room >= Len(minus) =>
                Landmarks(NewGeoms(scene, scene'))
                  = <<"CAR DASHBOARD", "SPEED", "TACHOMETER", "FUEL: %.1f%%",
                      "TEMP: %.1f C", "goal marker", "Goal: (%.2f, %.2f)">>]_vars

\* A pass without a car body, with room for every geom, ending in the goal
\* marker and the goal label.
C9_Witness ==
  /\ Rendered
  /\ car_body_id < 0
  /\ Len(scene.geoms) - last.n0 = last.ncalls
  /\ last.ncalls > 80
  /\ scene.geoms[Len(scene.geoms) - 1].type = "SPHERE"
  /\ scene.geoms[Len(scene.geoms)].label[1] = "Goal: (%.2f, %.2f)"

\* C10 as stated: in every state a render pass can read, a never-updated
\* instance included, 800 <= rpm <= 8000 and the tachometer's pointer ratio
\* rpm / 8000 is within [0.1, 1].
C10_RpmAlwaysInRange ==
  /\ dashboard["A"].rpm >= 800000 /\ dashboard["A"].rpm <= 8000000
  /\ RpmRatio(dashboard["A"]) >= 100000 /\ RpmRatio(dashboard["A"]) <= 1000000

-----------------------------------------------------------------------------
(* The gauge faces.                                                        *)

\* The last pass got past its guard and every geom it asked for was kept.
RenderedInFull == Rendered /\ Len(scene.geoms) - last.n0 = last.ncalls

\* The geoms the last pass appended.
LastAppended == SubSeq(scene.geoms, last.n0 + 1, Len(scene.geoms))

\* The radial lines about the centre (x, y) among the geoms q, in order:
\* <<inner radius, outer radius, angle>> of each.
TicksOf(q, x, y) ==
  LET tick(g) == /\ g.type = "BOX" /\ g.mat = "rotation"
                 /\ g.from.x = x /\ g.from.y = y /\ g.to.x = x /\ g.to.y = y
                 /\ g.from.r > 0 /\ g.from.a = g.to.a
      t == SelectSeq(q, tick)
  IN  [k \in 1..Len(t) |-> <<t[k].from.r, t[k].to.r, t[k].from.a>>]

\* 12 ticks at i * 30 degrees from 0.8 to 0.9 of the size 0.8, and 4 ticks
\* at i * 90 degrees from 0.75 to 0.9 of it.
MinorTicks == [k \in 1..12 |-> <<6400, 7200, (k - 1) * 300000>>]
MajorTicks == [k \in 1..4 |-> <<6000, 7200, (k - 1) * 900000>>]

\* C11 (as amended): with room for every geom, the speedometer's face has
\* exactly 12 minor tick lines (i * 30 degrees, 0.8 to 0.9 of size) followed
\* by exactly 4 major tick lines (i * 90 degrees, 0.75 to 0.9 of size); the
\* tachometer's face has the same 12 minor tick lines and no major ones; for
\* every telemetry state.
C11_TickMarks ==
  RenderedInFull =>
    /\ TicksOf(LastAppended, 0 - 25000, 10000) = MinorTicks \o MajorTicks
    /\ TicksOf(LastAppended, 25000, 10000) = MinorTicks

\* A pass in full above 6000 rpm (the tachometer also draws its warning
\* discs): 16 ticks on the speedometer, 12 on the tachometer.
C11_Witness ==
  /\ RenderedInFull
  /\ dashboard["A"].rpm > 6000000
  /\ Len(TicksOf(LastAppended, 0 - 25000, 10000)) = 16
  /\ Len(TicksOf(LastAppended, 25000, 10000)) = 12

\* C11 as stated: both circular gauges have 12 minor ticks followed by 4
\* major ticks.
C11_BothGaugesHaveMajorTicks ==
  RenderedInFull =>
    /\ TicksOf(LastAppended, 0 - 25000, 10000) = MinorTicks \o MajorTicks
    /\ TicksOf(LastAppended, 25000, 10000) = MinorTicks \o MajorTicks

\* The colour of the fuel bar among the geoms q: the opaque rectangle on
\* the fuel gauge's row, left of the centre line; <<>> when there is none.
FuelBarColour(q) ==
  LET bar(g) == /\ g.type = "BOX" /\ g.mat = "identity"
                /\ g.from.y = 0 - 5000 /\ g.from.x < 0
                /\ g.rgba[4] = 10000
      b == SelectSeq(q, bar)
  IN  IF Len(b) = 0 THEN <<>> ELSE <<b[1].rgba[1], b[1].rgba[2], b[1].rgba[3]>>

\* C12: whenever the fuel bar is drawn it is green for fuel > 50, yellow for
\* 20 <= fuel <= 50 and red for fuel < 20, so it is red exactly when the
\* "LOW FUEL!" label is emitted.  The colour test is fuel > 20.0f and the
\* label test fuel < 20.0; they part only at fuel = 20.0, which the reserve
\* never holds: it is 20.000999999888023 after update 79,999 and
\* 19.999999999888022 after update 80,000 of every cycle.
C12_FuelColourRamp ==
  (RenderedInFull /\ FuelBarColour(LastAppended) /= <<>>) =>
    LET fuel == dashboard["A"].fuel
        colour == FuelBarColour(LastAppended)
    IN  /\ colour = IF FLess(<<200, 0, 0, 0>>, fuel.mag) THEN <<2000, 10000, 2000>>
                    ELSE IF fuel.mag[1] >= 80 THEN <<10000, 10000, 2000>>
                    ELSE <<10000, 2000, 2000>>
        /\ colour = <<10000, 2000, 2000>> <=> HasLowFuelLabel(LastAppended)

\* The pass after update 80,000, the first with the reserve under 20: the
\* bar has turned red and the label is there.
C12_Witness ==
  /\ RenderedInFull
  /\ updates["A"] = 80000
  /\ dashboard["A"].fuel.mag[1] = 79
  /\ FuelBarColour(LastAppended) = <<10000, 2000, 2000>>
  /\ HasLowFuelLabel(LastAppended)

\* The pass after update 79,999, the last with the reserve over 20: the bar
\* is still yellow and there is no label.
C12_WitnessAbove ==
  /\ RenderedInFull
  /\ updates["A"] = 79999
  /\ dashboard["A"].fuel.mag[1] = 80
  /\ FuelBarColour(LastAppended) = <<10000, 10000, 2000>>
  /\ ~HasLowFuelLabel(LastAppended)

\* C13: one pass asks for at least 81 and at most 91 primitives (title 1,
\* speedometer 32, tachometer 27 to 31, fuel gauge 9 to 11, temperature
\* gauge 10 to 13, goal marker 1, car label 0 or 1, goal label 1), whatever
\* the telemetry and the timer phases, and a pass entered with at least 91
\* free slots appends every one of them.
C13_FrameBound ==
  LET d == dashboard["A"]
      free == scene.maxgeom - last.n0
      new == Len(scene.geoms) - last.n0
  IN  /\ Len(DrawSpeedometer2D(d, 0 - 25000, 10000, 8000)) = 32
      /\ Len(DrawTachometer2D(d, 25000, 10000, 8000)) \in 27..31
      /\ Len(DrawFuelGauge2D(d, 0 - 25000, 0 - 5000, 15000, 4000, blink_timer)) \in 9..11
      /\ Len(DrawTemperatureGauge2D(d, 25000, 0 - 5000, 15000, 4000, heat_timer)) \in 10..13
      /\ Len(CarLabel(car_body_id, xpos)) \in 0..1
      /\ Rendered => last.ncalls \in 81..91
      /\ (Rendered /\ free >= 91) => new = last.ncalls /\ new \in 81..91

\* A pass that appended 91 primitives: above 6000 rpm and 100 C, fuel below
\* 20 with the blink visible, and a car body.
C13_Witness ==
  /\ RenderedInFull
  /\ Len(LastAppended) = 91
  /\ car_body_id >= 0
  /\ HasBlinkRectangle(LastAppended)

=============================================================================
